---- MODULE Spec2Model ----
(***************************************************************************)
(* A model of the fuzzy_logic inference engine: the memoizing Fuzzy Set    *)
(* (set.rs), the expression tree, Rule and RuleSet (rules.rs), the center  *)
(* of mass defuzzification (functions.rs) and the InferenceMachine         *)
(* (inference.rs).                                                         *)
(*                                                                         *)
(* Numbers.  Keys (f32 samples) are the integers 0..MaxKey.  Degrees (f32) *)
(* are integers in fixed point: MaxDeg stands for the degree 1.0, so 0 is  *)
(* 0.0 and negative integers are negative degrees.  A crisp value (the     *)
(* quotient computed by center_of_mass) is kept as a reduced fraction, and *)
(* 0.0/0.0 as NaN.                                                         *)
(***************************************************************************)
EXTENDS Integers, Sequences, FiniteSets, TLC

VARIABLES
    universes,   \* InferenceMachine.universes: name -> UniversalSet
    values,      \* InferenceMachine.values: variable -> sample
    rules,       \* InferenceMachine.rules: the RuleSet's Vec<Rule>
    options,     \* InferenceMachine.options: the operator tables
    last,        \* the last call made on the machine and what it returned
    crashed,     \* TRUE once a call has panicked
    given,       \* the Vec<Rule> handed to RuleSet::new
    built,       \* what RuleSet::new made of it
    poolSize,    \* compute_all_async: the threads of the Pool
    mainpc,      \* compute_all_async: where the calling thread is
    workers,     \* compute_all_async: one job per rule, by rule index
    chan,        \* compute_all_async: the results sent and not yet received
    counter,     \* compute_all_async: the local counter
    result,      \* compute_all_async: the local result, the accumulator
    expected,    \* what compute_all returns from the context of the dispatch
    returned     \* what compute_all_async returned

machineVars == <<universes, values, rules, options, last, crashed>>
buildVars == <<given, built>>
asyncVars == <<poolSize, mainpc, workers, chan, counter, result, expected, returned>>
otherVars == <<buildVars, asyncVars>>
vars == <<machineVars, buildVars, asyncVars>>

(***************************************************************************)
(* Bounds: the samples are 0..MaxKey, RuleSet::new is given up to MaxRules *)
(* rules, a Pool has up to MaxPool threads.  MaxDeg is the degree 1.0.     *)
(***************************************************************************)
MaxKey == 1
MaxRules == 3
MaxPool == 2
MaxDeg == 2

Keys == 0..MaxKey

Min(a, b) == IF a <= b THEN a ELSE b
Max(a, b) == IF a >= b THEN a ELSE b
Abs(a) == IF a < 0 THEN -a ELSE a

RECURSIVE Gcd(_, _)
Gcd(a, b) == IF b = 0 THEN a ELSE Gcd(b, a % b)

(***************************************************************************)
(* set.rs: Set                                                             *)
(***************************************************************************)
EmptyCache == [k \in {} |-> 0]

Some(f) == [some |-> TRUE, f |-> f]
None == [some |-> FALSE]

\* Set::new_with_mem, and the Set literal of UniversalSet::create_set
NewWithMem(name, membership) ==
    [name |-> name, membership |-> Some(membership), cache |-> EmptyCache]

\* Set::new_with_domain
NewWithDomain(name, cache) ==
    [name |-> name, membership |-> None, cache |-> cache]

\* Set::new_empty (called Set::empty in rules.rs)
NewEmpty == NewWithDomain("Empty", EmptyCache)

\* HashMap::entry(k).or_insert(v): the stored value wins over v
OrInsert(cache, k, v) ==
    IF k \in DOMAIN cache THEN cache ELSE (k :> v) @@ cache

\* HashMap::remove(k)
Remove(cache, k) == [j \in DOMAIN cache \ {k} |-> cache[j]]

\* The mutant of Prune: the test is mem < 0.0, so a degree of 0 stays cached.
PruneStrict(cache, k, mem) == IF mem < 0 THEN Remove(cache, k) ELSE cache

\* set.rs 47-49: if mem <= 0.0 { self.cache.remove(&ordered); }
Prune(cache, k, mem) == IF mem <= 0 THEN Remove(cache, k) ELSE cache

\* Set::check.  The argument of or_insert is evaluated before the call, so the
\* membership function is invoked (or unreachable!() panics) on a hit as well.
SetCheck(set, x) ==
    IF ~set.membership.some
    THEN [ok |-> FALSE, msg |-> "unreachable", ret |-> 0, invoked |-> FALSE,
          hit |-> x \in DOMAIN set.cache, set |-> set]
    ELSE LET arg == set.membership.f[x]
             inserted == OrInsert(set.cache, x, arg)
             mem == inserted[x]
         IN  [ok |-> TRUE, msg |-> "", ret |-> mem, invoked |-> TRUE,
              hit |-> x \in DOMAIN set.cache,
              set |-> [set EXCEPT !.cache = Prune(inserted, x, mem)]]

(***************************************************************************)
(* set.rs: UniversalSet                                                    *)
(***************************************************************************)
NoSets == [n \in {} |-> NewEmpty]

\* UniversalSet::new
UniversalSetNew(name) == [name |-> name, domain |-> <<>>, sets |-> NoSets]

\* create_set by insert(name, Set {..}): the last registration wins
CreateSetOverwrite(universe, name, membership) ==
    [universe EXCEPT !.sets = (name :> NewWithMem(name, membership)) @@ @]

\* UniversalSet::create_set: entry(name).or_insert(Set {..})
CreateSet(universe, name, membership) ==
    IF name \in DOMAIN universe.sets
    THEN universe
    ELSE [universe EXCEPT !.sets = (name :> NewWithMem(name, membership)) @@ @]

\* UniversalSet::memberships: check(x) on every set, collected by name
UniverseMemberships(universe, x) ==
    [ret |-> [n \in DOMAIN universe.sets |-> SetCheck(universe.sets[n], x).ret],
     universe |-> [universe EXCEPT !.sets =
                      [n \in DOMAIN universe.sets |-> SetCheck(universe.sets[n], x).set]]]

(***************************************************************************)
(* ops: LogicOps and SetOps.  The operator tables are supplied by the      *)
(* caller; two tables are modelled.  Both unions are commutative and       *)
(* associative and have the empty set as their identity.                   *)
(***************************************************************************)
LogicAnd(table, a, b) ==
    IF table = "zadeh" THEN Min(a, b) ELSE Max(0, a + b - MaxDeg)

LogicOr(table, a, b) ==
    IF table = "zadeh" THEN Max(a, b) ELSE Min(MaxDeg, a + b)

LogicNot(table, a) == MaxDeg - a

\* SetOps::union: the keys of both caches; a key of both gets the larger
\* ("max") or the smaller ("min") degree.  The result is a set without a
\* membership function named after its left operand.
Union(table, a, b) ==
    NewWithDomain(a.name,
        [k \in DOMAIN a.cache \cup DOMAIN b.cache |->
            IF k \notin DOMAIN b.cache THEN a.cache[k]
            ELSE IF k \notin DOMAIN a.cache THEN b.cache[k]
            ELSE IF table = "max" THEN Max(a.cache[k], b.cache[k])
            ELSE Min(a.cache[k], b.cache[k])])

OptionTables ==
    { [logic_ops |-> "zadeh", set_ops |-> "max"],
      [logic_ops |-> "lukasiewicz", set_ops |-> "min"] }

(***************************************************************************)
(* functions.rs: DefuzzFactory::center_of_mass                             *)
(***************************************************************************)
RECURSIVE SumOver(_, _, _)
\* iter().fold(0.0, |acc, (k, v)| acc + w(k, v)) over the keys in ks
SumOver(cache, ks, weighted) ==
    IF ks = {} THEN 0
    ELSE LET k == CHOOSE j \in ks : TRUE
         IN  (IF weighted THEN k * cache[k] ELSE cache[k])
                + SumOver(cache, ks \ {k}, weighted)

\* The f32 quotient n / d: a reduced fraction, an infinity, or NaN for 0/0
Quotient(n, d) ==
    IF d = 0
    THEN IF n = 0 THEN [kind |-> "nan", num |-> 0, den |-> 0]
         ELSE [kind |-> "inf", num |-> IF n > 0 THEN 1 ELSE -1, den |-> 0]
    ELSE LET g == Gcd(Abs(n), Abs(d))
             sign == IF d < 0 THEN -1 ELSE 1
         IN  [kind |-> "num", num |-> sign * (n \div g), den |-> sign * (d \div g)]

CenterOfMass(s) ==
    LET sum == SumOver(s.cache, DOMAIN s.cache, FALSE)
        prod_sum == SumOver(s.cache, DOMAIN s.cache, TRUE)
    IN  Quotient(prod_sum, sum)

(***************************************************************************)
(* rules.rs: the expression tree                                           *)
(***************************************************************************)
Is(variable, set) == [op |-> "is", variable |-> variable, set |-> set]
And(left, right) == [op |-> "and", left |-> left, right |-> right]
Or(left, right) == [op |-> "or", left |-> left, right |-> right]
Not(expression) == [op |-> "not", expression |-> expression]

Panic(msg, us) == [ok |-> FALSE, msg |-> msg, ret |-> 0, universes |-> us]
Value(ret, us) == [ok |-> TRUE, msg |-> "", ret |-> ret, universes |-> us]

\* Is::eval: values[&variable], universes.get(..).expect(..),
\* sets.get(..).expect(..), then set.check(value)
IsEval(e, vals, us) ==
    IF e.variable \notin DOMAIN vals
    THEN Panic("no entry found for key", us)
    ELSE IF e.variable \notin DOMAIN us
    THEN Panic(e.variable \o " is not exists", us)
    ELSE IF e.set \notin DOMAIN us[e.variable].sets
    THEN Panic(e.set \o " is not exists", us)
    ELSE LET c == SetCheck(us[e.variable].sets[e.set], vals[e.variable])
         IN  IF c.ok
             THEN Value(c.ret, [us EXCEPT ![e.variable].sets[e.set] = c.set])
             ELSE Panic(c.msg, us)

RECURSIVE EvalShortCircuit(_, _, _, _)
\* Expression::eval with And and Or that skip the right child once the left
\* one has settled the result (0.0 for And, 1.0 for Or)
EvalShortCircuit(e, vals, us, opts) ==
    IF e.op = "is" THEN IsEval(e, vals, us)
    ELSE IF e.op = "not"
    THEN LET v == EvalShortCircuit(e.expression, vals, us, opts)
         IN  IF v.ok THEN Value(LogicNot(opts.logic_ops, v.ret), v.universes) ELSE v
    ELSE LET l == EvalShortCircuit(e.left, vals, us, opts)
         IN  IF ~l.ok THEN l
             ELSE IF e.op = "and" /\ l.ret <= 0 THEN Value(0, l.universes)
             ELSE IF e.op = "or" /\ l.ret >= MaxDeg THEN Value(MaxDeg, l.universes)
             ELSE LET r == EvalShortCircuit(e.right, vals, l.universes, opts)
                  IN  IF ~r.ok THEN r
                      ELSE Value(IF e.op = "and"
                                 THEN LogicAnd(opts.logic_ops, l.ret, r.ret)
                                 ELSE LogicOr(opts.logic_ops, l.ret, r.ret),
                                 r.universes)

RECURSIVE Eval(_, _, _, _)
\* Expression::eval for Is, And, Or and Not: both children of And and Or are
\* evaluated, left first; a panic in a child unwinds through the parent.
Eval(e, vals, us, opts) ==
    IF e.op = "is" THEN IsEval(e, vals, us)
    ELSE IF e.op = "not"
    THEN LET v == Eval(e.expression, vals, us, opts)
         IN  IF v.ok THEN Value(LogicNot(opts.logic_ops, v.ret), v.universes) ELSE v
    ELSE LET l == Eval(e.left, vals, us, opts)
         IN  IF ~l.ok THEN l
             ELSE LET r == Eval(e.right, vals, l.universes, opts)
                  IN  IF ~r.ok THEN r
                      ELSE Value(IF e.op = "and"
                                 THEN LogicAnd(opts.logic_ops, l.ret, r.ret)
                                 ELSE LogicOr(opts.logic_ops, l.ret, r.ret),
                                 r.universes)

(***************************************************************************)
(* rules.rs: Rule                                                          *)
(***************************************************************************)
RuleNew(condition, result_universe, result_set) ==
    [condition |-> condition, result_set |-> result_set,
     result_universe |-> result_universe]

\* The mutant of FilterCache: min-clip, an entry above the strength is
\* clamped down to it instead of being dropped.
FilterClamp(cache, expression_result) ==
    [k \in DOMAIN cache |-> Min(cache[k], expression_result)]

\* rules.rs 149-158: filter_map keeping (key, value) when value <= expression_result
FilterCache(cache, expression_result) ==
    [k \in {j \in DOMAIN cache : cache[j] <= expression_result} |-> cache[k]]

\* Rule::compute filtering the target set in place (retain on its cache)
\* and returning a copy of what is left
RuleComputeRetain(rule, vals, us, opts) ==
    LET e == Eval(rule.condition, vals, us, opts)
        none == [ok |-> FALSE, msg |-> e.msg, strength |-> 0, set |-> NewEmpty,
                 universes |-> e.universes]
    IN  IF ~e.ok THEN none
        ELSE IF rule.result_universe \notin DOMAIN e.universes
        THEN [none EXCEPT !.msg = rule.result_universe \o " is not exists"]
        ELSE IF rule.result_set \notin DOMAIN e.universes[rule.result_universe].sets
        THEN [none EXCEPT !.msg = rule.result_set \o " is not exists"]
        ELSE LET target == e.universes[rule.result_universe].sets[rule.result_set]
                 kept == FilterCache(target.cache, e.ret)
             IN  [ok |-> TRUE, msg |-> "", strength |-> e.ret,
                  set |-> NewWithDomain(
                              rule.result_universe \o ": " \o rule.result_set,
                              kept),
                  universes |-> [e.universes EXCEPT
                      ![rule.result_universe].sets[rule.result_set].cache = kept]]

\* Rule::compute: the condition first, then the target universe and set
RuleCompute(rule, vals, us, opts) ==
    LET e == Eval(rule.condition, vals, us, opts)
        none == [ok |-> FALSE, msg |-> e.msg, strength |-> 0, set |-> NewEmpty,
                 universes |-> e.universes]
    IN  IF ~e.ok THEN none
        ELSE IF rule.result_universe \notin DOMAIN e.universes
        THEN [none EXCEPT !.msg = rule.result_universe \o " is not exists"]
        ELSE IF rule.result_set \notin DOMAIN e.universes[rule.result_universe].sets
        THEN [none EXCEPT !.msg = rule.result_set \o " is not exists"]
        ELSE LET target == e.universes[rule.result_universe].sets[rule.result_set]
             IN  [ok |-> TRUE, msg |-> "", strength |-> e.ret,
                  set |-> NewWithDomain(
                              rule.result_universe \o ": " \o rule.result_set,
                              FilterCache(target.cache, e.ret)),
                  universes |-> e.universes]

(***************************************************************************)
(* rules.rs: RuleSet                                                       *)
(***************************************************************************)
RECURSIVE FirstConflictSkipLast(_, _, _)
\* The mutant of FirstConflict: the loop stops one rule early.
FirstConflictSkipLast(list, i, rule_universe) ==
    IF i >= Len(list) THEN 0
    ELSE IF rule_universe # list[i].result_universe THEN i
    ELSE FirstConflictSkipLast(list, i + 1, rule_universe)

RECURSIVE FirstConflict(_, _, _)
\* rules.rs 181-187: the index of the first rule whose result_universe is not
\* rule_universe, 0 when the loop ends without returning
FirstConflict(list, i, rule_universe) ==
    IF i > Len(list) THEN 0
    ELSE IF rule_universe # list[i].result_universe THEN i
    ELSE FirstConflict(list, i + 1, rule_universe)

\* RuleSet::new.  rules[0] is read before anything else: an empty Vec panics.
RuleSetNew(list) ==
    IF Len(list) = 0
    THEN [kind |-> "panic", msg |-> "index out of bounds", rules |-> <<>>]
    ELSE LET rule_universe == list[1].result_universe
             i == FirstConflict(list, 1, rule_universe)
         IN  IF i # 0
             THEN [kind |-> "err",
                   msg |-> "Rules are in different result universes("
                              \o rule_universe \o " and "
                              \o list[i].result_universe \o ")",
                   rules |-> <<>>]
             ELSE [kind |-> "ok", msg |-> "", rules |-> list]

RECURSIVE ComputeAllFromShort(_, _, _, _, _, _)
\* The loop over rules[1..], leaving the last rule of the list out
ComputeAllFromShort(list, i, result_set, vals, us, opts) ==
    IF i >= Len(list)
    THEN [ok |-> TRUE, msg |-> "", set |-> result_set, universes |-> us]
    ELSE LET computed == RuleCompute(list[i], vals, us, opts)
         IN  IF ~computed.ok
             THEN [ok |-> FALSE, msg |-> computed.msg, set |-> NewEmpty,
                   universes |-> computed.universes]
             ELSE ComputeAllFromShort(list, i + 1,
                                      Union(opts.set_ops, result_set, computed.set),
                                      vals, computed.universes, opts)

RECURSIVE ComputeAllFrom(_, _, _, _, _, _)
\* rules.rs 192-195: the loop over rules[1..], the accumulator on the left
ComputeAllFrom(list, i, result_set, vals, us, opts) ==
    IF i > Len(list)
    THEN [ok |-> TRUE, msg |-> "", set |-> result_set, universes |-> us]
    ELSE LET computed == RuleCompute(list[i], vals, us, opts)
         IN  IF ~computed.ok
             THEN [ok |-> FALSE, msg |-> computed.msg, set |-> NewEmpty,
                   universes |-> computed.universes]
             ELSE ComputeAllFrom(list, i + 1,
                                 Union(opts.set_ops, result_set, computed.set),
                                 vals, computed.universes, opts)

\* RuleSet::compute_all
ComputeAll(list, vals, us, opts) ==
    LET first == RuleCompute(list[1], vals, us, opts)
    IN  IF ~first.ok
        THEN [ok |-> FALSE, msg |-> first.msg, set |-> NewEmpty,
              universes |-> first.universes]
        ELSE ComputeAllFrom(list, 2, first.set, vals, first.universes, opts)

(***************************************************************************)
(* The machine under test: its universes, its rules and its inputs         *)
(***************************************************************************)
\* Membership functions, built as the closures of MembershipFactory are:
\* cold falls from 1.0 at key 0 and goes negative, low falls slowly and stays
\* positive over the keys, high rises from a negative degree.
Cold == [x \in Keys |-> MaxDeg - 2 * x]
Low == [x \in Keys |-> MaxDeg - x]
High == [x \in Keys |-> Min(MaxDeg, 2 * x - 1)]

Registry ==
    [temp |-> CreateSet(UniversalSetNew("temp"), "cold", Cold),
     action |-> CreateSet(CreateSet(UniversalSetNew("action"), "low", Low),
                          "high", High)]

Variables == {"temp", "action"}

\* The mappings update() may be given: any samples for any of the variables,
\* and always a reading of "speed", for which no universe is registered
ValueMaps ==
    {vals @@ [v \in {"speed"} |-> 0] :
        vals \in UNION {[d -> Keys] : d \in SUBSET Variables}}

\* The rule lists a machine may be built with; each passes RuleSet::new.
\* The last four name a universe or a set the registry does not hold.
RuleLists ==
    { <<RuleNew(Is("temp", "cold"), "action", "low")>>,
      <<RuleNew(And(Is("temp", "cold"), Not(Is("action", "high"))), "action", "low"),
        RuleNew(Or(Is("action", "low"), Is("temp", "cold")), "action", "high")>>,
      <<RuleNew(Is("speed", "fast"), "action", "low")>>,
      <<RuleNew(Is("temp", "warm"), "action", "low")>>,
      <<RuleNew(Is("temp", "cold"), "motor", "low")>>,
      <<RuleNew(Is("temp", "cold"), "action", "mid")>> }

(***************************************************************************)
(* inference.rs: InferenceMachine, and the calls a caller makes on it      *)
(***************************************************************************)
\* No compute_all_async call is in progress: a Pool of one thread, never used
NoCall ==
    /\ poolSize = 1
    /\ mainpc = "idle"
    /\ workers = <<>>
    /\ chan = <<>>
    /\ counter = 0
    /\ result = NewEmpty
    /\ expected = [ok |-> FALSE, set |-> NewEmpty]
    /\ returned = NewEmpty

\* A call record notes whether the call before it was the same call with the
\* same arguments (twice) and, if so, what that call returned (first).
NotTwice == [twice |-> FALSE]

\* InferenceMachine::new over a RuleSet built by RuleSet::new
Init ==
    /\ universes = Registry
    /\ values = [v \in {} |-> 0]
    /\ given \in RuleLists
    /\ built = RuleSetNew(given)
    /\ built.kind = "ok"
    /\ rules = built.rules
    /\ options \in OptionTables
    /\ last = [op |-> "new"]
    /\ crashed = FALSE
    /\ NoCall

\* universes[u].sets[s].check(x), called by the owner of the machine
Check(u, s, x) ==
    /\ ~crashed
    /\ LET c == SetCheck(universes[u].sets[s], x)
       IN  /\ universes' = [universes EXCEPT ![u].sets[s] = c.set]
           /\ last' = [op |-> "check", universe |-> u, set |-> s, x |-> x,
                       ok |-> c.ok, ret |-> c.ret, invoked |-> c.invoked,
                       hit |-> c.hit,
                       before |-> IF /\ last.op = "check" /\ last.universe = u
                                     /\ last.set = s /\ last.x = x
                                  THEN [twice |-> TRUE, first |-> last.ret]
                                  ELSE NotTwice]
           /\ crashed' = ~c.ok
    /\ UNCHANGED <<values, rules, options, otherVars>>

\* universes[u].memberships(x)
Memberships(u, x) ==
    /\ ~crashed
    /\ LET m == UniverseMemberships(universes[u], x)
       IN  /\ universes' = [universes EXCEPT ![u] = m.universe]
           /\ last' = [op |-> "memberships", universe |-> u, x |-> x,
                       ret |-> m.ret]
    /\ UNCHANGED <<values, rules, options, crashed, otherVars>>

\* update() keeping the readings the new mapping does not name
UpdateMerge(vals) ==
    /\ ~crashed
    /\ values' = vals @@ values
    /\ last' = [op |-> "update", arg |-> vals,
                dropped |-> DOMAIN values \ DOMAIN vals]
    /\ UNCHANGED <<universes, rules, options, crashed, otherVars>>

\* InferenceMachine::update.  The call record keeps the mapping supplied and
\* the variables the snapshot held that the mapping does not name.
Update(vals) ==
    /\ ~crashed
    /\ values' = vals
    /\ last' = [op |-> "update", arg |-> vals,
                dropped |-> DOMAIN values \ DOMAIN vals]
    /\ UNCHANGED <<universes, rules, options, crashed, otherVars>>

\* rules[i].compute(&context), the context built as compute() builds it
ComputeRule(i) ==
    /\ ~crashed
    /\ LET r == RuleCompute(rules[i], values, universes, options)
       IN  /\ universes' = r.universes
           /\ last' = [op |-> "rule", rule |-> i, ok |-> r.ok, msg |-> r.msg,
                       strength |-> r.strength, set |-> r.set]
           /\ crashed' = ~r.ok
    /\ UNCHANGED <<values, rules, options, otherVars>>

\* check(x) on the Set the last Rule::compute returned (a set built by
\* new_with_domain)
CheckResult(x) ==
    /\ ~crashed
    /\ last.op = "rule" /\ last.ok
    /\ LET c == SetCheck(last.set, x)
       IN  /\ last' = [op |-> "check_result", x |-> x, ok |-> c.ok,
                       msg |-> c.msg, hit |-> c.hit, invoked |-> c.invoked,
                       was |-> last.set, set |-> c.set]
           /\ crashed' = ~c.ok
    /\ UNCHANGED <<universes, values, rules, options, otherVars>>

\* InferenceMachine::compute: compute_all, then (result.name, defuzz(result)).
\* A panic inside compute_all unwinds through compute: nothing is returned.
Compute ==
    /\ ~crashed
    /\ LET all == ComputeAll(rules, values, universes, options)
       IN  /\ universes' = all.universes
           /\ last' = [op |-> "compute", ok |-> all.ok, msg |-> all.msg,
                       label |-> all.set.name,
                       crisp |-> CenterOfMass(all.set),
                       set |-> all.set,
                       before |-> IF last.op = "compute"
                                  THEN [twice |-> TRUE,
                                        first |-> <<last.label, last.crisp>>]
                                  ELSE NotTwice]
           /\ crashed' = ~all.ok
    /\ UNCHANGED <<values, rules, options, otherVars>>

Next ==
    \/ \E u \in DOMAIN universes : \E s \in DOMAIN universes[u].sets :
          \E x \in Keys : Check(u, s, x)
    \/ \E u \in DOMAIN universes : \E x \in Keys : Memberships(u, x)
    \/ \E vals \in ValueMaps : Update(vals)
    \/ \E i \in 1..Len(rules) : ComputeRule(i)
    \/ \E x \in Keys : CheckResult(x)
    \/ Compute

Spec == Init /\ [][Next]_vars

(***************************************************************************)
(* The documented example: universes temp and action with triangular sets, *)
(* one rule, center of mass                                                *)
(***************************************************************************)
\* The degree 1.0 at the resolution of the example: the degree of every sample
\* below is a whole number of units.
Unit == 75 * MaxDeg

\* The samples the example is run on. triangular(a, a, c) at x = a is
\* 1.0 - 0.0 / 0.0; -20 and 0 are left out.
Samples == {-15, -5, 10, 25, 50}

\* MembershipFactory::triangular
Triangular(a, b, c) ==
    [x \in Samples |->
        IF a <= x /\ x <= b THEN Unit - (Unit * (b - x)) \div (b - a)
        ELSE IF b <= x /\ x <= c THEN Unit - (Unit * (x - b)) \div (c - b)
        ELSE 0]

ExampleRegistry ==
    [temp |-> CreateSet(CreateSet(UniversalSetNew("temp"),
                            "cold", Triangular(-20, -20, 10)),
                        "hot", Triangular(10, 40, 40)),
     action |-> CreateSet(UniversalSetNew("action"),
                          "low", Triangular(0, 0, 50))]

ExampleRules == <<RuleNew(Is("temp", "cold"), "action", "low")>>

ExampleInput == [temp |-> -15]

InitExample ==
    /\ universes = ExampleRegistry
    /\ values = [v \in {} |-> 0]
    /\ given = ExampleRules
    /\ built = RuleSetNew(given)
    /\ rules = built.rules
    /\ options \in OptionTables
    /\ last = [op |-> "new"]
    /\ crashed = FALSE
    /\ NoCall

NextExample ==
    \/ \E u \in DOMAIN universes : \E x \in Samples : Memberships(u, x)
    \/ \E t \in Samples : Update([temp |-> t])
    \/ Compute

SpecExample == InitExample /\ [][NextExample]_vars

(***************************************************************************)
(* Filling a universe: create_set, check and memberships on a UniversalSet *)
(* the caller is still building                                            *)
(***************************************************************************)
SetNames == {"cold", "hot"}

MembershipFunctions == {Cold, Low, High}

InitRegister ==
    /\ universes = [temp |-> UniversalSetNew("temp")]
    /\ values = [v \in {} |-> 0]
    /\ rules = <<>>
    /\ options = [logic_ops |-> "zadeh", set_ops |-> "max"]
    /\ last = [op |-> "new"]
    /\ crashed = FALSE
    /\ given = <<>>
    /\ built = [kind |-> "none", msg |-> "", rules |-> <<>>]
    /\ NoCall

\* universes[u].create_set(name, membership).  The call record keeps the sets
\* the universe held before the call.
Register(u, name, membership) ==
    /\ ~crashed
    /\ universes' = [universes EXCEPT ![u] = CreateSet(@, name, membership)]
    /\ last' = [op |-> "create_set", universe |-> u, name |-> name,
                membership |-> membership,
                existed |-> name \in DOMAIN universes[u].sets,
                old |-> universes[u].sets]
    /\ UNCHANGED <<values, rules, options, crashed, otherVars>>

NextRegister ==
    \/ \E u \in DOMAIN universes : \E name \in SetNames :
          \E membership \in MembershipFunctions : Register(u, name, membership)
    \/ \E u \in DOMAIN universes : \E s \in DOMAIN universes[u].sets :
          \E x \in Keys : Check(u, s, x)
    \/ \E u \in DOMAIN universes : \E x \in Keys : Memberships(u, x)

SpecRegister == InitRegister /\ [][NextRegister]_vars

(***************************************************************************)
(* Building rule sets: RuleSet::new on every list of up to MaxRules rules  *)
(***************************************************************************)
\* The rules a caller may put in the list
CandidateRules ==
    {RuleNew(Is("temp", "cold"), u, s) :
        u \in {"action", "motor", "temp"}, s \in {"low", "high"}}

CandidateLists == UNION {[1..n -> CandidateRules] : n \in 0..MaxRules}

NotBuilt == [kind |-> "none", msg |-> "", rules |-> <<>>]

InitBuild ==
    /\ universes = Registry
    /\ values = [v \in {} |-> 0]
    /\ rules = <<>>
    /\ options = [logic_ops |-> "zadeh", set_ops |-> "max"]
    /\ last = [op |-> "new"]
    /\ crashed = FALSE
    /\ given = <<>>
    /\ built = NotBuilt
    /\ NoCall

\* RuleSet::new(list)
New(list) ==
    /\ given' = list
    /\ built' = RuleSetNew(list)
    /\ UNCHANGED <<machineVars, asyncVars>>

NextBuild == \E list \in CandidateLists : New(list)

SpecBuild == InitBuild /\ [][NextBuild]_vars

(***************************************************************************)
(* rules.rs: RuleSet::compute_all_async, thread by thread.                 *)
(*                                                                         *)
(* The calling thread queues one job per rule and then receives and folds  *)
(* `counter` results.  A job is Rule::compute followed by tx.send; it runs *)
(* on a Pool thread with nothing held between its steps: the code takes no *)
(* lock around Set::check or around the filter over the target's cache.    *)
(* A job is therefore a sequence of steps that other jobs interleave with: *)
(* for each Is node, in evaluation order, the lookups, the or_insert and   *)
(* (for a degree <= 0) the remove; then the filter over the target; then   *)
(* the send.  A cache operation has a step that enters it and a step that  *)
(* completes it and takes effect.                                          *)
(***************************************************************************)
RECURSIVE Leaves(_)
\* The Is nodes of an expression in the order eval reaches them
Leaves(e) ==
    IF e.op = "is" THEN <<e>>
    ELSE IF e.op = "not" THEN Leaves(e.expression)
    ELSE Leaves(e.left) \o Leaves(e.right)

RECURSIVE Combine(_, _, _)
\* The degree of an expression from the degrees its Is nodes returned, in the
\* order of Leaves; rest is what the expression did not consume
Combine(e, degs, opts) ==
    IF e.op = "is" THEN [ret |-> Head(degs), rest |-> Tail(degs)]
    ELSE IF e.op = "not"
    THEN LET v == Combine(e.expression, degs, opts)
         IN  [ret |-> LogicNot(opts.logic_ops, v.ret), rest |-> v.rest]
    ELSE LET l == Combine(e.left, degs, opts)
             r == Combine(e.right, l.rest, opts)
         IN  [ret |-> IF e.op = "and"
                      THEN LogicAnd(opts.logic_ops, l.ret, r.ret)
                      ELSE LogicOr(opts.logic_ops, l.ret, r.ret),
              rest |-> r.rest]

Queued == [pc |-> "queued", leaf |-> 1, degs |-> <<>>, mem |-> 0, set |-> NewEmpty]

Jobs == DOMAIN workers

\* The Is node job i is at
LeafOf(i) == Leaves(rules[i].condition)[workers[i].leaf]

Panicked == {i \in Jobs : workers[i].pc = "panicked"}
Running == {i \in Jobs : workers[i].pc \notin {"queued", "done", "panicked"}}

\* After the Is node in progress: the next one, or the target lookup
Advance(w, mem, i) ==
    [w EXCEPT !.degs = Append(@, mem), !.mem = 0,
              !.leaf = IF @ < Len(Leaves(rules[i].condition)) THEN @ + 1 ELSE @,
              !.pc = IF w.leaf < Len(Leaves(rules[i].condition))
                     THEN "check" ELSE "target"]

\* rules.rs 201-212: Pool::new, channel(), one scope.execute per rule,
\* Set::empty().  Also notes what compute_all returns from this context.
Dispatch(n) ==
    /\ mainpc = "idle" /\ ~crashed
    /\ poolSize' = n
    /\ workers' = [i \in 1..Len(rules) |-> Queued]
    /\ chan' = <<>>
    /\ counter' = Len(rules)
    /\ result' = NewEmpty
    /\ mainpc' = "recv"
    /\ expected' = LET all == ComputeAll(rules, values, universes, options)
                   IN  [ok |-> all.ok, set |-> all.set]
    /\ last' = [op |-> "compute_all_async"]
    /\ UNCHANGED <<universes, values, rules, options, crashed, buildVars, returned>>

\* A Pool that keeps one of its threads back: a job starts only while a
\* second thread is free
StartReserved(i) ==
    /\ workers[i].pc = "queued"
    /\ \A j \in 1..(i - 1) : workers[j].pc # "queued"
    /\ Cardinality(Running) + Cardinality(Panicked) + 1 < poolSize
    /\ workers' = [workers EXCEPT ![i].pc = "check"]
    /\ UNCHANGED <<machineVars, buildVars, poolSize, mainpc, chan, counter,
                   result, expected, returned>>

\* A Pool thread takes the oldest queued job; a thread whose job panicked is
\* gone.
Start(i) ==
    /\ workers[i].pc = "queued"
    /\ \A j \in 1..(i - 1) : workers[j].pc # "queued"
    /\ Cardinality(Running) + Cardinality(Panicked) < poolSize
    /\ workers' = [workers EXCEPT ![i].pc = "check"]
    /\ UNCHANGED <<machineVars, buildVars, poolSize, mainpc, chan, counter,
                   result, expected, returned>>

\* Is::eval up to the call of or_insert: values[..], the two .expect()
CheckBegin(i) ==
    /\ workers[i].pc = "check"
    /\ LET e == LeafOf(i)
           found == /\ e.variable \in DOMAIN values
                    /\ e.variable \in DOMAIN universes
                    /\ e.set \in DOMAIN universes[e.variable].sets
                    /\ universes[e.variable].sets[e.set].membership.some
       IN  workers' = [workers EXCEPT ![i].pc =
                          IF found THEN "inserting" ELSE "panicked"]
    /\ UNCHANGED <<machineVars, buildVars, poolSize, mainpc, chan, counter,
                   result, expected, returned>>

\* set.rs 41-45: or_insert completes and mem is read
InsertEnd(i) ==
    /\ workers[i].pc = "inserting"
    /\ LET e == LeafOf(i)
           x == values[e.variable]
           set == universes[e.variable].sets[e.set]
           inserted == OrInsert(set.cache, x, set.membership.f[x])
           mem == inserted[x]
       IN  /\ universes' = [universes EXCEPT ![e.variable].sets[e.set].cache = inserted]
           /\ workers' = [workers EXCEPT ![i] =
                             IF Prune(inserted, x, mem) # inserted
                             THEN [@ EXCEPT !.pc = "removing", !.mem = mem]
                             ELSE Advance(@, mem, i)]
    /\ UNCHANGED <<values, rules, options, last, crashed, buildVars, poolSize,
                   mainpc, chan, counter, result, expected, returned>>

\* set.rs 47-49: the remove completes
RemoveEnd(i) ==
    /\ workers[i].pc = "removing"
    /\ LET e == LeafOf(i)
           x == values[e.variable]
       IN  universes' = [universes EXCEPT ![e.variable].sets[e.set].cache =
                            Prune(@, x, workers[i].mem)]
    /\ workers' = [workers EXCEPT ![i] = Advance(@, workers[i].mem, i)]
    /\ UNCHANGED <<values, rules, options, last, crashed, buildVars, poolSize,
                   mainpc, chan, counter, result, expected, returned>>

\* rules.rs 143-149: the target's two .expect(), then cache.borrow().iter()
FilterBegin(i) ==
    /\ workers[i].pc = "target"
    /\ LET rule == rules[i]
           found == /\ rule.result_universe \in DOMAIN universes
                    /\ rule.result_set \in DOMAIN universes[rule.result_universe].sets
       IN  workers' = [workers EXCEPT ![i].pc =
                          IF found THEN "filtering" ELSE "panicked"]
    /\ UNCHANGED <<machineVars, buildVars, poolSize, mainpc, chan, counter,
                   result, expected, returned>>

\* rules.rs 149-160: the filter completes and the result Set is built
FilterEnd(i) ==
    /\ workers[i].pc = "filtering"
    /\ LET rule == rules[i]
           target == universes[rule.result_universe].sets[rule.result_set]
           expression_result == Combine(rule.condition, workers[i].degs, options).ret
       IN  workers' = [workers EXCEPT
              ![i].pc = "send",
              ![i].set = NewWithDomain(
                            rule.result_universe \o ": " \o rule.result_set,
                            FilterCache(target.cache, expression_result))]
    /\ UNCHANGED <<machineVars, buildVars, poolSize, mainpc, chan, counter,
                   result, expected, returned>>

\* rules.rs 209: tx.send(rule_result).unwrap(); the receiver outlives every job
Send(i) ==
    /\ workers[i].pc = "send"
    /\ chan' = Append(chan, workers[i].set)
    /\ workers' = [workers EXCEPT ![i].pc = "done", ![i].set = NewEmpty]
    /\ UNCHANGED <<machineVars, buildVars, poolSize, mainpc, counter, result,
                   expected, returned>>

\* rules.rs 213-216: one turn of the while loop; recv() blocks on an empty
\* channel, and cannot fail while the caller's own tx is alive
Recv ==
    /\ mainpc = "recv" /\ counter # 0
    /\ chan # <<>>
    /\ result' = Union(options.set_ops, result, Head(chan))
    /\ chan' = Tail(chan)
    /\ counter' = counter - 1
    /\ UNCHANGED <<machineVars, buildVars, poolSize, mainpc, workers, expected,
                   returned>>

\* rules.rs 217-218: the loop is over, the scope joins its jobs, result is
\* returned
Return ==
    /\ mainpc = "recv" /\ counter = 0
    /\ \A i \in Jobs : workers[i].pc = "done"
    /\ returned' = result
    /\ mainpc' = "returned"
    /\ UNCHANGED <<machineVars, buildVars, poolSize, workers, chan, counter,
                   result, expected>>

\* A machine is built and used (update, check, memberships); then
\* compute_all_async runs once on its context.
NextAsync ==
    \/ \E vals \in ValueMaps : mainpc = "idle" /\ Update(vals)
    \/ \E u \in DOMAIN universes : \E s \in DOMAIN universes[u].sets :
          \E x \in Keys : mainpc = "idle" /\ Check(u, s, x)
    \/ \E u \in DOMAIN universes : \E x \in Keys :
          mainpc = "idle" /\ Memberships(u, x)
    \/ \E n \in 1..MaxPool : Dispatch(n)
    \/ \E i \in Jobs : Start(i)
    \/ \E i \in Jobs : CheckBegin(i)
    \/ \E i \in Jobs : InsertEnd(i)
    \/ \E i \in Jobs : RemoveEnd(i)
    \/ \E i \in Jobs : FilterBegin(i)
    \/ \E i \in Jobs : FilterEnd(i)
    \/ \E i \in Jobs : Send(i)
    \/ Recv
    \/ Return

SpecAsync == Init /\ [][NextAsync]_vars

\* A step of the call in progress: of a Pool thread or of the caller's loop
Working ==
    \/ \E i \in Jobs : \/ Start(i) \/ CheckBegin(i) \/ InsertEnd(i)
                        \/ RemoveEnd(i) \/ FilterBegin(i) \/ FilterEnd(i)
                        \/ Send(i)
    \/ Recv
    \/ Return

\* The threads of the process are scheduled: while the call can take a step,
\* some thread takes one.
SpecAsyncFair == SpecAsync /\ WF_vars(Working)

(***************************************************************************)
(* Properties of the machine                                               *)
(***************************************************************************)
CacheOf(u, s) == universes[u].sets[s].cache

C2_CheckTwice ==
    (last.op = "check" /\ last.before.twice) =>
        /\ last.ret = last.before.first
        /\ last.ret > 0 =>
              /\ last.x \in DOMAIN CacheOf(last.universe, last.set)
              /\ CacheOf(last.universe, last.set)[last.x] = last.ret
        /\ last.ret <= 0 => last.x \notin DOMAIN CacheOf(last.universe, last.set)

\* Two checks in a row of a sample whose degree is 0
C2_Witness ==
    /\ last.op = "check" /\ last.before.twice
    /\ last.ret = 0

\* C3: Rule.compute returns a set without a membership function, named
\* "<result_universe>: <result_set>", whose cache holds exactly the entries of
\* the target's cache (as it is once the condition is evaluated) of degree <= s,
\* s being the degree of the condition, each with its own degree.
C3_RuleFilter ==
    (last.op = "rule" /\ last.ok) =>
        LET rule == rules[last.rule]
            target == CacheOf(rule.result_universe, rule.result_set)
            s == Eval(rule.condition, values, universes, options).ret
        IN  /\ ~last.set.membership.some
            /\ last.set.name = rule.result_universe \o ": " \o rule.result_set
            /\ last.strength = s
            /\ \A k \in Keys :
                  k \in DOMAIN last.set.cache <=>
                      (k \in DOMAIN target /\ target[k] <= s)
            /\ \A k \in DOMAIN last.set.cache : last.set.cache[k] = target[k]

\* A rule whose filter kept one entry of the target and dropped another
C3_Witness ==
    /\ last.op = "rule" /\ last.ok
    /\ LET rule == rules[last.rule]
           target == CacheOf(rule.result_universe, rule.result_set)
       IN  /\ \E k \in DOMAIN target : target[k] > last.strength
           /\ \E k \in DOMAIN target : k \in DOMAIN last.set.cache

\* C5: the second of two consecutive compute() calls returns the label and the
\* crisp value the first returned (NaN counted as equal to NaN).
C5_ComputeIdempotent ==
    (last.op = "compute" /\ last.ok /\ last.before.twice) =>
        <<last.label, last.crisp>> = last.before.first

\* C7: a compute() that met a lookup miss returned a typed error and did not
\* panic.
C7_TypedLookupError ==
    (last.op = "compute" /\ ~last.ok) =>
        /\ ~crashed
        /\ last.msg \in {"UnknownVariable", "UnknownUniverse", "UnknownSet"}

\* C11: check(x) on a set without a membership function returns an
\* InvalidMembershipUse error, on a key of its cache and on any other sample
\* alike, and leaves the cache as it was; it does not panic.
C11_InvalidMembershipUse ==
    (last.op = "check_result") =>
        /\ ~crashed
        /\ ~last.ok /\ last.msg = "InvalidMembershipUse"
        /\ last.set.cache = last.was.cache

\* C12: check(x) invokes the membership function on a miss and does not invoke
\* it on a hit.
C12_InvokedOnMissOnly ==
    (last.op = "check" /\ last.ok) => (last.invoked <=> ~last.hit)

\* C14: a rule's compute returns the same Fuzzy Set whether or not another
\* rule of the list has been computed before it in the cycle.
C14_RulesIndependent ==
    [][(last'.op = "rule" /\ last'.ok /\ values' = values)
       => \A i \in 1..Len(rules) :
            LET alone == RuleCompute(rules[i], values, universes, options)
                after == RuleCompute(rules[i], values, universes', options)
            IN  (i # last'.rule /\ alone.ok) => after.set = alone.set]_vars

RECURSIVE InOrder(_, _, _, _, _)
\* The union of the results of rules 1..n, each computed in the context the
\* rules before it left, the union of the earlier ones on the left
InOrder(list, n, vals, us, opts) ==
    IF n = 1
    THEN LET r == RuleCompute(list[1], vals, us, opts)
         IN  [set |-> r.set, universes |-> r.universes]
    ELSE LET earlier == InOrder(list, n - 1, vals, us, opts)
             r == RuleCompute(list[n], vals, earlier.universes, opts)
         IN  [set |-> Union(opts.set_ops, earlier.set, r.set),
              universes |-> r.universes]

\* C15: compute_all returns union(...union(union(r0, r1), r2)..., rn) of the
\* rule results taken in list order, each rule computed once in the context
\* the rules before it left; with one rule it returns that rule's result.
C15_SequentialOrder ==
    [][(last'.op = "compute" /\ last'.ok)
       => LET folded == InOrder(rules, Len(rules), values, universes, options)
          IN  /\ last'.set = folded.set
              /\ universes' = folded.universes
              /\ Len(rules) = 1 =>
                    last'.set = RuleCompute(rules[1], values, universes,
                                            options).set]_vars

C15_Witness ==
    /\ last.op = "compute" /\ last.ok
    /\ Len(rules) = 2
    /\ LET second == RuleCompute(rules[2], values, universes, options).set
       IN  /\ second.cache # EmptyCache
           /\ second.cache # last.set.cache

\* C16: update() makes the snapshot exactly the mapping supplied, so a
\* variable the mapping does not name no longer resolves, and leaves the rule
\* set, the operator tables, the registry and every cache as they were.
C16_UpdateReplaces ==
    [][(last'.op = "update")
       => /\ values' = last'.arg
          /\ \A v \in last'.dropped : v \in DOMAIN values /\ v \notin DOMAIN values'
          /\ universes' = universes
          /\ rules' = rules
          /\ options' = options]_vars

C16_Witness ==
    /\ last.op = "update"
    /\ "temp" \in last.dropped
    /\ "action" \in DOMAIN values
    /\ CacheOf("temp", "cold") # EmptyCache

\* The Is nodes of an expression, as a set
IsNodes(e) == {Leaves(e)[n] : n \in 1..Len(Leaves(e))}

\* C17: And and Or evaluate both children whatever the left one returns and
\* whatever the operator table: after a rule is computed every membership
\* test of its condition has memoized its sample (when its degree is > 0),
\* and the caches an evaluation leaves are the same under every operator
\* table.
C17_BothChildrenEvaluated ==
    /\ (last.op = "rule" /\ last.ok) =>
          \A e \in IsNodes(rules[last.rule].condition) :
              /\ e.variable \in DOMAIN values
              /\ LET x == values[e.variable]
                     set == universes[e.variable].sets[e.set]
                 IN  set.membership.f[x] > 0 =>
                         /\ x \in DOMAIN set.cache
                         /\ set.cache[x] = set.membership.f[x]
    /\ \A i \in 1..Len(rules) : \A o1, o2 \in OptionTables :
          LET a == Eval(rules[i].condition, values, universes, o1)
              b == Eval(rules[i].condition, values, universes, o2)
          IN  a.ok = b.ok /\ a.universes = b.universes

\* The left child of And returned 0.0 and the right child's sample is memoized
C17_Witness ==
    /\ last.op = "rule" /\ last.ok /\ last.rule = 1
    /\ rules[1].condition.op = "and"
    /\ Eval(rules[1].condition.left, values, universes, options).ret = 0
    /\ values[rules[1].condition.right.expression.variable]
          \in DOMAIN CacheOf("action", "high")

\* C18: create_set under a name the universe already holds keeps the set
\* registered first, its membership function and its memoized cache, and
\* fails in no way; under a new name it adds a set with an empty cache.
\* Every other set of the universe is left as it was.
C18_FirstWriteWins ==
    (last.op = "create_set") =>
        LET sets == universes[last.universe].sets
        IN  /\ ~crashed
            /\ DOMAIN sets = DOMAIN last.old \cup {last.name}
            /\ \A n \in DOMAIN last.old : sets[n] = last.old[n]
            /\ ~last.existed =>
                  sets[last.name] = [name |-> last.name,
                                     membership |-> Some(last.membership),
                                     cache |-> EmptyCache]

C18_Witness ==
    /\ last.op = "create_set" /\ last.existed
    /\ last.old[last.name].cache # EmptyCache
    /\ last.old[last.name].membership.f # last.membership

\* The samples the step just taken may have passed to check on set s of
\* universe u: the argument of a check or memberships call, the readings the
\* membership tests of the computed rules look up
Checked(u, s) ==
    IF last'.op = "check"
    THEN IF last'.universe = u /\ last'.set = s THEN {last'.x} ELSE {}
    ELSE IF last'.op = "memberships"
    THEN IF last'.universe = u THEN {last'.x} ELSE {}
    ELSE IF last'.op \in {"rule", "compute"}
    THEN {values[e.variable] :
            e \in {n \in UNION {IsNodes(rules[i].condition) :
                                  i \in IF last'.op = "rule" THEN {last'.rule}
                                        ELSE 1..Len(rules)} :
                     n.variable = u /\ n.set = s /\ n.variable \in DOMAIN values}}
    ELSE {}

\* C20: across check, memberships, update, Rule::compute and compute the
\* cache of every registry set only grows: an entry with a degree > 0 is
\* neither removed nor changed, and a new entry is the membership degree of
\* a sample that the step passed to check on that set; the filter and the
\* union of a computation write no registry cache.
C20_CachesOnlyGrow ==
    [][\A u \in DOMAIN universes : \A s \in DOMAIN universes[u].sets :
          LET old == universes[u].sets[s].cache
              new == universes'[u].sets[s].cache
          IN  /\ \A k \in DOMAIN old :
                    old[k] > 0 => k \in DOMAIN new /\ new[k] = old[k]
              /\ \A k \in DOMAIN new \ DOMAIN old :
                    /\ k \in Checked(u, s)
                    /\ new[k] = universes[u].sets[s].membership.f[k]]_vars

\* compute() has returned a set from which the filter dropped a sample that
\* the registry cache of the target set still holds
C20_Witness ==
    /\ last.op = "compute" /\ last.ok
    /\ Len(rules) = 1
    /\ \E k \in DOMAIN CacheOf("action", "low") : k \notin DOMAIN last.set.cache

InRange(q, lo, hi) ==
    q.kind = "num" /\ lo * q.den <= q.num /\ q.num <= hi * q.den

\* C13: on the freshly built machine of the example, with the input
\* {temp: -15}, compute() returns ("action: low", v) with v in [0, 50].
C13_EndToEnd ==
    [][(/\ universes = ExampleRegistry
        /\ values = ExampleInput
        /\ last'.op = "compute")
       => (/\ last'.ok
           /\ last'.label = "action: low"
           /\ InRange(last'.crisp, 0, 50))]_vars

(***************************************************************************)
(* Properties of RuleSet::new                                              *)
(***************************************************************************)
SameUniverse(list) ==
    \A i \in 1..Len(list) : list[i].result_universe = list[1].result_universe

\* C9: RuleSet::new on an empty list returns a ConfigurationError value (it
\* neither panics nor builds a RuleSet).
C9_EmptyListIsError ==
    (built.kind # "none" /\ given = <<>>) => built.kind = "err"

\* C10: for a non-empty list, RuleSet::new succeeds exactly when every rule's
\* result_universe is the first rule's; the error names the first rule's
\* universe and the conflicting one; the RuleSet built holds the rules in the
\* given order, so a RuleSet is never empty and has one output universe.
C10_RuleSetNew ==
    (built.kind # "none" /\ given # <<>>) =>
        /\ built.kind \in {"ok", "err"}
        /\ built.kind = "ok" <=> SameUniverse(given)
        /\ built.kind = "err" =>
              \E i \in 1..Len(given) :
                  /\ given[i].result_universe # given[1].result_universe
                  /\ built.msg = "Rules are in different result universes("
                                    \o given[1].result_universe \o " and "
                                    \o given[i].result_universe \o ")"
        /\ built.kind = "ok" =>
              /\ built.rules = given
              /\ built.rules # <<>> /\ SameUniverse(built.rules)

\* A list of MaxRules rules refused because only its last rule is in another
\* universe
C10_Witness ==
    /\ built.kind = "err"
    /\ Len(given) = MaxRules
    /\ SameUniverse(SubSeq(given, 1, MaxRules - 1))

(***************************************************************************)
(* Properties of compute_all_async                                         *)
(***************************************************************************)
\* C4: when compute_all_async returns, its result holds the (key, degree)
\* pairs that compute_all returns from the context the call started from
\* (both unions modelled are commutative and associative).
C4_AsyncEqualsSequential ==
    (mainpc = "returned" /\ expected.ok) =>
        returned.cache = expected.set.cache

\* The cache entries a job is writing: the entry of the sample, during the
\* or_insert and during the remove of a check
Writes(i) ==
    IF workers[i].pc \in {"inserting", "removing"}
    THEN {<<LeafOf(i).variable, LeafOf(i).set, values[LeafOf(i).variable]>>}
    ELSE {}

\* The cache entries a job is reading: those of the target, during the filter
Reads(i) ==
    IF workers[i].pc = "filtering"
    THEN {<<rules[i].result_universe, rules[i].result_set, k>> : k \in Keys}
    ELSE {}

\* C6: no job reads a cache entry that another job is inserting or removing,
\* and no two jobs write one entry at the same time.
C6_MutualExclusion ==
    \A i \in Jobs : \A j \in Jobs \ {i} :
        Writes(i) \cap (Reads(j) \cup Writes(j)) = {}

\* Nothing can happen any more: no job is running or can start, and nothing
\* is left in the channel
Quiescent ==
    /\ Running = {}
    /\ chan = <<>>
    /\ \A i \in Jobs : ~ENABLED Start(i)

\* C8: once a job has failed and everything else has run, the failure has
\* reached the caller: compute_all_async is neither still waiting in recv() nor
\* back with a result.
C8_WorkerFailurePropagates ==
    (Panicked # {} /\ Quiescent) => mainpc = "failed"

\* C19: a compute_all_async call in which no rule fails returns, whatever
\* the pool size; when it returns every rule was dispatched to one job, every
\* job has run to its end and sent its result, and the caller has received
\* them all (counter went from the number of rules to 0, nothing is left in
\* the channel).
C19_AsyncTerminates ==
    /\ [](mainpc = "returned" =>
            /\ Jobs = 1..Len(rules)
            /\ \A i \in Jobs : workers[i].pc = "done"
            /\ counter = 0
            /\ chan = <<>>)
    /\ (mainpc = "recv" /\ expected.ok) ~> (mainpc = "returned")

\* A call on two rules and a pool of one thread has returned
C19_Witness ==
    /\ mainpc = "returned" /\ expected.ok
    /\ poolSize = 1
    /\ Len(rules) = 2

====
